---- MODULE Spec2Model ----
(***************************************************************************)
(* Model of the fused TPU single-step decoding attention kernel            *)
(* (axlearn/common/flash_attention/tpu_decoding.py): the driver            *)
(* TPUDecoding.__call__, the support predicate TPUDecoding.is_supported    *)
(* and the grid program _tpu_decoding_kernel.                              *)
(*                                                                         *)
(* Numbers.  Logits are small integers and exp is taken to base two, with  *)
(* every softmax weight held as an integer multiple of 2^-ExpRange, so     *)
(* that the streaming accumulation is exact.  NEG_INF is a finite, very    *)
(* negative number, as in the source (it is not -infinity): exp of a       *)
(* difference that involves exactly one NEG_INF underflows to 0, and       *)
(* exp(NEG_INF - NEG_INF) = exp(0) = 1.                                    *)
(***************************************************************************)
EXTENDS Integers, Sequences, FiniteSets, TLC

\* ---------------------------------------------------------------- bounds
\* padded_kv_seq_len = key.shape[1] of the modelled calls.
PaddedKvSeqLen == 4
\* Batch size bs.
BatchSize == 2
\* Number of kv heads.
NumKvHeads == 1
\* Scaled logits q.k lie in 0 .. MaxLogit.
MaxLogit == 1
\* Sliding window sizes 0 .. MaxWindow.
MaxWindow == 1
\* Key lengths and block sizes 1 .. MaxSupportLen of the is_supported calls.
MaxSupportLen == 6

\* ------------------------------------------------------------- constants
\* attention_bias.NEG_INF: finite, far below every logit.
NEG_INF == -1000
\* Sentinel of the block offset table.
padding == -1
\* Side of the position grid of the sliding-window equivalence test.
SwGridLen == 16

\* --------------------------------------------------------------- helpers
Min(a, b) == IF a < b THEN a ELSE b
Max(a, b) == IF a > b THEN a ELSE b

RECURSIVE Pow2(_)
Pow2(n) == IF n <= 0 THEN 1 ELSE 2 * Pow2(n - 1)

RECURSIVE SumOver(_, _)
\* Sum of f[x] over the finite set S = DOMAIN-subset of f.
SumOver(f, S) ==
  IF S = {} THEN 0
  ELSE LET x == CHOOSE y \in S : TRUE IN f[x] + SumOver(f, S \ {x})

SetMax(S) == CHOOSE x \in S : \A y \in S : y <= x

\* pl.cdiv.
cdiv(a, b) == (a + b - 1) \div b

\* The largest logit spread that is held exactly: logits plus bias lie in
\* -1 .. MaxLogit.
ExpRange == MaxLogit + 1
\* 1.0 in the fixed-point representation of softmax weights.
One == Pow2(ExpRange)
\* jnp.exp(d) for d <= 0, in units of 2^-ExpRange.  Differences below
\* -ExpRange only arise against NEG_INF and underflow to zero.
Exp(d) == IF d < -ExpRange THEN 0 ELSE Pow2(ExpRange + d)

Batches == 0 .. BatchSize - 1
Heads == 0 .. NumKvHeads - 1
Lanes == Batches \X Heads

\* ------------------------------------------------------------ mask model
\* The mask component of the bias: cls is the class of the component
\* ("None" when split() finds no MaskFnAttentionBias), fn names the mask
\* function, w is the sliding window size.
NoMask == [cls |-> "None", fn |-> "none", w |-> 0]
MaskVariants ==
  { [cls |-> "MaskFn", fn |-> "none", w |-> 0],
    [cls |-> "Causal", fn |-> "causal", w |-> 0],
    [cls |-> "MaskFn", fn |-> "strict", w |-> 0],
    [cls |-> "MaskFn", fn |-> "parity", w |-> 0] }
  \cup { [cls |-> "SlidingWindow", fn |-> "window", w |-> w] : w \in 0 .. MaxWindow }

\* mask_fn(query_position, key_position).
mask_fn(mask, q, k) ==
  CASE mask.fn = "causal" -> q >= k
    [] mask.fn = "strict" -> q > k
    [] mask.fn = "parity" -> (q - k) % 2 = 0
    [] mask.fn = "window" -> (q - k <= mask.w) /\ (q >= k)
    [] OTHER -> TRUE

\* Positions of block i of size blk in a sequence of length len.
BlockPositions(i, blk, len) == { p \in 0 .. len - 1 : p \div blk = i }

\* build_mask: block (i, j) is TRUE iff some (q, k) pair of the block pair
\* is unmasked.
build_mask(mask, q_seq_len, kv_seq_len, block_q, block_k) ==
  [ i \in 0 .. cdiv(q_seq_len, block_q) - 1 |->
    [ j \in 0 .. cdiv(kv_seq_len, block_k) - 1 |->
      \E q \in BlockPositions(i, block_q, q_seq_len) :
        \E k \in BlockPositions(j, block_k, kv_seq_len) : mask_fn(mask, q, k) ] ]

\* build_sliding_window_mask: closed form, one contiguous run per row.
build_sliding_window_mask(q_seq_len, kv_seq_len, block_q, block_k, sliding_window_size) ==
  [ i \in 0 .. cdiv(q_seq_len, block_q) - 1 |->
    LET start_idx == Max(0, i * block_q - sliding_window_size) \div block_k
        end_idx == Min(kv_seq_len - 1, i * block_q + block_q - 1) \div block_k
    IN [ j \in 0 .. cdiv(kv_seq_len, block_k) - 1 |-> (start_idx <= j) /\ (j <= end_idx) ] ]

\* query_iterator_indices: per row, the TRUE columns in ascending order,
\* then the padding value.
query_iterator_indices(block_mask_map, pad) ==
  [ i \in DOMAIN block_mask_map |->
    LET row == block_mask_map[i]
        S == { j \in DOMAIN row : row[j] }
    IN [ c \in DOMAIN row |->
         IF c < Cardinality(S)
         THEN CHOOSE j \in S : Cardinality({ x \in S : x < j }) = c
         ELSE pad ] ]

\* ------------------------------------------------------------ input data
\* Rows of scaled logits softmax_scale * q.k, by name.
LogitPatterns == { "flat", "alt", "peak" }

\* pl.dot(q, k) * softmax_scale at key position p of lane (b, h).
QK(lg, b, h, p) ==
  CASE lg = "alt" -> (p + b + h) % (MaxLogit + 1)
    [] lg = "peak" -> IF p = 0 THEN MaxLogit ELSE 0
    [] OTHER -> 0

\* The value row at key position p of lane (b, h) (head_dim = 1).
V(b, h, p) == p + 1 + PaddedKvSeqLen * (b * NumKvHeads + h)

\* The explicit dense bias tensor: "bcast" has leading dims (1, 1), "full"
\* is per batch and per head.
BiasKinds == { "none", "bcast", "full" }
BiasTensor(kind, bi, hi, p) ==
  IF kind = "bcast" THEN 0 - (p % 2) ELSE 0 - ((p + bi + hi) % 2)

\* ---------------------------------------------------------------- driver
\* block_size = min(self.cfg.tpu_block_size, key.shape[1]).
block_size_of(inp) == Min(inp.tpu_block_size, inp.padded_kv_seq_len)

\* Number of KV blocks: padded_kv_seq_len / block_size, rounded up.
NumKvBlocksOf(inp) == cdiv(inp.padded_kv_seq_len, block_size_of(inp))

\* kv_seq_len = mask.target_positions[:, -1] + 1.
kv_seq_len_of(inp) == [ b \in Batches |-> inp.target_positions[b] + 1 ]

\* The closed form called with the window one position too narrow.
bool_mask_of_narrow_window(mask, padded_kv_seq_len, block_size) ==
  IF mask.cls = "SlidingWindow"
  THEN build_sliding_window_mask(padded_kv_seq_len, padded_kv_seq_len,
                                 block_size, block_size, mask.w - 1)
  ELSE build_mask(mask, padded_kv_seq_len, padded_kv_seq_len, block_size, block_size)

\* The boolean block map chosen by the driver: the closed form for a
\* SlidingWindowAttentionBias, predicate evaluation otherwise.
bool_mask_of(mask, padded_kv_seq_len, block_size) ==
  IF mask.cls = "SlidingWindow"
  THEN build_sliding_window_mask(padded_kv_seq_len, padded_kv_seq_len,
                                 block_size, block_size, mask.w)
  ELSE build_mask(mask, padded_kv_seq_len, padded_kv_seq_len, block_size, block_size)

\* The table whose rows without mask function stop at the diagonal.
offset_of_lower_triangular(mask, padded_kv_seq_len, block_size) ==
  IF mask.fn # "none"
  THEN query_iterator_indices(bool_mask_of(mask, padded_kv_seq_len, block_size), padding)
  ELSE LET padded_num_kv_blocks == cdiv(padded_kv_seq_len, block_size)
       IN [ i \in 0 .. padded_num_kv_blocks - 1 |->
            [ j \in 0 .. padded_num_kv_blocks - 1 |-> IF j <= i THEN j ELSE padding ] ]

\* The full block offset table, num_kv_blocks x num_kv_blocks.
offset_of(mask, padded_kv_seq_len, block_size) ==
  IF mask.fn # "none"
  THEN query_iterator_indices(bool_mask_of(mask, padded_kv_seq_len, block_size), padding)
  ELSE LET padded_num_kv_blocks == cdiv(padded_kv_seq_len, block_size)
       IN [ i \in 0 .. padded_num_kv_blocks - 1 |->
            [ j \in 0 .. padded_num_kv_blocks - 1 |-> j ] ]

\* Row index (kv_seq_len - 1) // block_size; a negative index counts from
\* the end, as array indexing does.
\* The row of the position before the query position.
row_index_before_query(kv_len, block_size, num_rows) ==
  LET r == (kv_len - 2) \div block_size
  IN IF r < 0 THEN r + num_rows ELSE r

row_index(kv_len, block_size, num_rows) ==
  LET r == (kv_len - 1) \div block_size
  IN IF r < 0 THEN r + num_rows ELSE r

\* The selected rows read back to front.
selected_rows_reversed(inp) ==
  LET bsz == block_size_of(inp)
      offset == offset_of(inp.mask, inp.padded_kv_seq_len, bsz)
      nrows == cdiv(inp.padded_kv_seq_len, bsz)
  IN [ b \in Batches |->
       LET row == offset[row_index(kv_seq_len_of(inp)[b], bsz, nrows)]
       IN [ c \in DOMAIN row |-> row[Cardinality(DOMAIN row) - 1 - c] ] ]

\* kv_block_offset = offset[(kv_seq_len - 1) // block_size], before the
\* sentinel is replaced.
selected_rows(inp) ==
  LET bsz == block_size_of(inp)
      offset == offset_of(inp.mask, inp.padded_kv_seq_len, bsz)
      nrows == cdiv(inp.padded_kv_seq_len, bsz)
  IN [ b \in Batches |-> offset[row_index(kv_seq_len_of(inp)[b], bsz, nrows)] ]

\* The count of key positions below kv_seq_len instead of blocks.
count_valid_positions(row, block_size, kv_len) ==
  Cardinality({ c \in DOMAIN row : row[c] # padding /\ row[c] * block_size < kv_len })
  * block_size

\* The count with the block that starts at kv_seq_len included.
count_valid_inclusive(row, block_size, kv_len) ==
  Cardinality({ c \in DOMAIN row : row[c] # padding /\ row[c] * block_size <= kv_len })

\* The count without the comparison against kv_seq_len.
count_valid_unbounded(row, block_size, kv_len) ==
  Cardinality({ c \in DOMAIN row : row[c] # padding })

\* kv_block_offset_size: the entries that are not padding and whose first
\* position is < kv_seq_len.
count_valid(row, block_size, kv_len) ==
  Cardinality({ c \in DOMAIN row : row[c] # padding /\ row[c] * block_size < kv_len })

kv_block_offset_size_of(inp) ==
  [ b \in Batches |->
    count_valid(selected_rows(inp)[b], block_size_of(inp), kv_seq_len_of(inp)[b]) ]

\* The selected row passed on with its sentinel entries.
replace_padding_skipped(row) == row

\* jnp.where(row == padding, row.max(), row).
replace_padding(row) ==
  LET mx == SetMax({ row[c] : c \in DOMAIN row })
  IN [ c \in DOMAIN row |-> IF row[c] = padding THEN mx ELSE row[c] ]

kv_block_offset_of(inp) ==
  [ b \in Batches |-> replace_padding(selected_rows(inp)[b]) ]

\* The scan dimension sized by the first batch element.
grid_scan_of_first(inp) == kv_block_offset_size_of(inp)[0]

\* grid[2] = kv_block_offset_size.max().
grid_scan_of(inp) ==
  SetMax({ kv_block_offset_size_of(inp)[b] : b \in Batches })

\* Block index maps of the BlockSpecs: the last component is the KV block.
\* An output index map that ignores the batch coordinate.
q_spec_map_shared(b, h, j) == << 0, h, 0, 0 >>

\* The index map of q_spec, which is also out_specs.
q_spec_map(b, h, j) == << b, h, 0, 0 >>

kv_index_map(batch_idx, head_idx, kv_block_idx, kv_block_offset) ==
  << batch_idx, head_idx, 0, kv_block_offset[batch_idx][kv_block_idx] >>

\* A bias index map that uses the scan index as the block index.
bias_index_map_by_scan_index(batch_idx, head_idx, kv_block_idx, kv_block_offset) ==
  << 0, 0, 0, kv_block_idx >>

bias_index_map(batch_idx, head_idx, kv_block_idx, kv_block_offset) ==
  << 0, 0, 0, kv_block_offset[batch_idx][kv_block_idx] >>

\* The index map of bias_spec.
bias_spec_map(kind, batch_idx, head_idx, kv_block_idx, kv_block_offset) ==
  IF kind = "bcast"
  THEN bias_index_map(batch_idx, head_idx, kv_block_idx, kv_block_offset)
  ELSE kv_index_map(batch_idx, head_idx, kv_block_idx, kv_block_offset)

\* ---------------------------------------------------------------- kernel
VARIABLES
  pc,          \* "start", "raised", "grid", "ran", "done", or a phase of a helper run
  input,       \* input_batch and cfg of the call
  drv,         \* what the driver hands to pallas_call: scalars, table, grid
  pid,         \* pl.program_id: << batch, kv head, scan index >>
  m_i,         \* scratch: running maximum
  l_i,         \* scratch: running normalizer
  o_scratch,   \* scratch: running weighted output [val, nan]
  o_ref,       \* output, per lane
  log,         \* per lane: the blocks computed on and the scan indices of final()
  ret          \* return value of the helper under study (is_supported, builder)

vars == << pc, input, drv, pid, m_i, l_i, o_scratch, o_ref, log, ret >>

\* The accumulator after init().
init == [ m |-> NEG_INF, l |-> 0, o |-> 0, nan |-> FALSE ]

\* One element of the blocks fetched at grid step (b, h, j) through the
\* BlockSpec index maps: k and v through kv_index_map, the bias through the
\* index map of bias_spec.  A position outside the arrays is read as an
\* unspecified value: the logit is masked out whatever it is, the value row
\* may be a NaN.
fetch(inp, tbl, b, h, j, i) ==
  LET block_k == block_size_of(inp)
      kidx == kv_index_map(b, h, j, tbl)
      bidx == bias_spec_map(inp.bias, b, h, j, tbl)
      pk == kidx[4] * block_k + i
      pb == bidx[4] * block_k + i
      inside(p) == (0 <= p) /\ (p < inp.padded_kv_seq_len)
  IN [ qk |-> IF inside(pk) THEN QK(inp.lg, kidx[1], kidx[2], pk) ELSE 0,
       v |-> IF inside(pk) THEN V(kidx[1], kidx[2], pk) ELSE 0,
       v_nan |-> (~inside(pk)) /\ (inp.oob = "nan"),
       b |-> IF inside(pb) THEN BiasTensor(inp.bias, bidx[1], bidx[2], pb) ELSE 0 ]

\* The mask without mask_fn: only the comparison with the true length.
kv_mask_length_only(inp, tbl, kv_len, b, j, i) ==
  tbl[b][j] * block_size_of(inp) + i < kv_len

\* The mask evaluated on block-relative key positions.
kv_mask_block_relative(inp, tbl, kv_len, b, j, i) ==
  (tbl[b][j] * block_size_of(inp) + i < kv_len)
  /\ ((inp.mask.fn # "none") => mask_fn(inp.mask, kv_len - 1, i))

\* kv_mask of element i of the block at grid step (b, j): the absolute key
\* position is within the true length and accepted by mask_fn.
kv_mask(inp, tbl, kv_len, b, j, i) ==
  LET kv_offset == tbl[b][j] * block_size_of(inp)
      block_kv_indices == kv_offset + i
  IN (block_kv_indices < kv_len)
     /\ ((inp.mask.fn # "none") => mask_fn(inp.mask, kv_len - 1, block_kv_indices))

\* The masked logits filled with 0 instead of NEG_INF.
masked_qk_zero_fill(inp, tbl, kv_len, b, h, j) ==
  [ i \in 0 .. block_size_of(inp) - 1 |->
    LET f == fetch(inp, tbl, b, h, j, i)
        qk == IF inp.bias # "none" THEN Max(f.qk + f.b, NEG_INF) ELSE f.qk
    IN IF kv_mask(inp, tbl, kv_len, b, j, i) THEN qk ELSE 0 ]

\* The masked logits of the block.
masked_qk(inp, tbl, kv_len, b, h, j) ==
  [ i \in 0 .. block_size_of(inp) - 1 |->
    LET f == fetch(inp, tbl, b, h, j, i)
        qk == IF inp.bias # "none" THEN Max(f.qk + f.b, NEG_INF) ELSE f.qk
    IN IF kv_mask(inp, tbl, kv_len, b, j, i) THEN qk ELSE NEG_INF ]

\* compute() with masked logits given weight 0 whatever the running maximum.
compute_masked_weightless(inp, tbl, kv_len, b, h, j, acc) ==
  LET idx == 0 .. block_size_of(inp) - 1
      qk == masked_qk(inp, tbl, kv_len, b, h, j)
      m_next == Max(acc.m, SetMax({ qk[i] : i \in idx }))
      correction == Exp(acc.m - m_next)
      s_curr == [ i \in idx |-> IF qk[i] = NEG_INF THEN 0 ELSE Exp(qk[i] - m_next) ]
  IN [ m |-> m_next,
       l |-> (correction * acc.l) \div One + SumOver(s_curr, idx),
       o |-> (correction * acc.o) \div One
             + SumOver([ i \in idx |-> s_curr[i] * fetch(inp, tbl, b, h, j, i).v ], idx),
       nan |-> acc.nan \/ (\E i \in idx : fetch(inp, tbl, b, h, j, i).v_nan) ]

\* compute() without the rescaling of the previous weighted output.
compute_unscaled_o_prev(inp, tbl, kv_len, b, h, j, acc) ==
  LET idx == 0 .. block_size_of(inp) - 1
      qk == masked_qk(inp, tbl, kv_len, b, h, j)
      m_next == Max(acc.m, SetMax({ qk[i] : i \in idx }))
      s_curr == [ i \in idx |-> Exp(qk[i] - m_next) ]
  IN [ m |-> m_next,
       l |-> (Exp(acc.m - m_next) * acc.l) \div One + SumOver(s_curr, idx),
       o |-> acc.o
             + SumOver([ i \in idx |-> s_curr[i] * fetch(inp, tbl, b, h, j, i).v ], idx),
       nan |-> acc.nan \/ (\E i \in idx : fetch(inp, tbl, b, h, j, i).v_nan) ]

\* compute(): one streaming-softmax update of the accumulator acc.
compute(inp, tbl, kv_len, b, h, j, acc) ==
  LET idx == 0 .. block_size_of(inp) - 1
      qk == masked_qk(inp, tbl, kv_len, b, h, j)
      m_prev == acc.m
      l_prev == acc.l
      o_prev == acc.o
      m_curr == SetMax({ qk[i] : i \in idx })
      m_next == Max(m_prev, m_curr)
      correction == Exp(m_prev - m_next)
      l_prev_corr == (correction * l_prev) \div One
      s_curr == [ i \in idx |-> Exp(qk[i] - m_next) ]
      l_curr == SumOver(s_curr, idx)
      l_next == l_prev_corr + l_curr
      o_prev_corr == (correction * o_prev) \div One
      o_curr == SumOver([ i \in idx |-> s_curr[i] * fetch(inp, tbl, b, h, j, i).v ], idx)
      o_next == o_prev_corr + o_curr
  IN [ m |-> m_next, l |-> l_next, o |-> o_next,
       nan |-> acc.nan \/ (\E i \in idx : fetch(inp, tbl, b, h, j, i).v_nan) ]

\* final(): o_ref = o_scratch / l_i, kept as a fraction.
final(acc) ==
  [ written |-> TRUE, num |-> acc.o, den |-> acc.l, nan |-> acc.nan \/ (acc.l = 0) ]

\* final() run at the first scan index.
when_final_first(non_empty_kv_block_index, num_non_empty_kv_blocks) ==
  (non_empty_kv_block_index = 0) /\ (num_non_empty_kv_blocks >= 1)

\* final() guarded by "at or after the last valid block".
when_final_from_last(non_empty_kv_block_index, num_non_empty_kv_blocks) ==
  non_empty_kv_block_index >= num_non_empty_kv_blocks - 1

\* compute() run at scan index 0 whatever the count.
when_compute_first_always(non_empty_kv_block_index, num_non_empty_kv_blocks) ==
  (non_empty_kv_block_index = 0) \/ (non_empty_kv_block_index < num_non_empty_kv_blocks)

\* compute() guarded by an inclusive comparison.
when_compute_inclusive(non_empty_kv_block_index, num_non_empty_kv_blocks) ==
  non_empty_kv_block_index <= num_non_empty_kv_blocks

\* init() run at the second scan index.
when_init_second_step(non_empty_kv_block_index) == non_empty_kv_block_index = 1

\* init() never run.
when_init_never(non_empty_kv_block_index) == FALSE

\* The pl.when conditions of init(), compute() and final().
when_init(non_empty_kv_block_index) == non_empty_kv_block_index = 0

when_compute(non_empty_kv_block_index, num_non_empty_kv_blocks) ==
  non_empty_kv_block_index < num_non_empty_kv_blocks

when_final(non_empty_kv_block_index, num_non_empty_kv_blocks) ==
  non_empty_kv_block_index = num_non_empty_kv_blocks - 1

\* The scratch after the kernel body ran at grid step (b, h, j) on scratch acc.
body_scratch(inp, d, b, h, j, acc) ==
  LET num_non_empty_kv_blocks == d.kv_block_offset_size[b]
      acc0 == IF when_init(j) THEN init ELSE acc
  IN IF when_compute(j, num_non_empty_kv_blocks)
     THEN compute(inp, d.kv_block_offset, d.kv_seq_len[b], b, h, j, acc0)
     ELSE acc0

\* Unwritten output memory.
Unwritten == [ written |-> FALSE, num |-> 0, den |-> 1, nan |-> FALSE ]
NoLog == [ computed |-> << >>, finals |-> << >> ]
NoDrv == [ kv_seq_len |-> << >>, kv_block_offset |-> << >>,
           kv_block_offset_size |-> << >>, grid |-> << 0, 0, 0 >> ]

\* Scratch memory is not initialized by the launch: it holds what was left
\* there.
ScratchStart == [ m |-> 0, l |-> 3, o |-> 5, nan |-> FALSE ]

\* The last target positions of the batch: kv_seq_len[b] - 1, from -1 on.
\* Every pair of lengths 0 .. PaddedKvSeqLen occurs in the first two batch
\* elements.
TargetPositions ==
  { [ b \in Batches |-> ((start + b * stride) % (PaddedKvSeqLen + 1)) - 1 ] :
      start \in 0 .. PaddedKvSeqLen, stride \in 0 .. PaddedKvSeqLen }

\* cfg.tpu_block_size: every divisor of the key length, one size above it
\* and one that does not divide it.
BlockSizes ==
  { d \in 1 .. PaddedKvSeqLen : PaddedKvSeqLen % d = 0 }
  \cup { PaddedKvSeqLen - 1, PaddedKvSeqLen + 1 }

\* Logit rows and explicit biases of the modelled calls.
DataProfiles ==
  { << "flat", "none" >>, << "alt", "none" >>, << "peak", "bcast" >>, << "alt", "full" >> }

\* input_batch without the key logit_sink.
NoSink == [ present |-> FALSE, value |-> 0 ]

Inputs ==
  { inp \in [ mask : MaskVariants \cup { NoMask },
              has_target_positions : BOOLEAN,
              target_positions : TargetPositions,
              tpu_block_size : BlockSizes,
              padded_kv_seq_len : { PaddedKvSeqLen },
              lg : LogitPatterns,
              bias : BiasKinds,
              logit_sink : { NoSink },
              oob : { "finite", "nan" } ] :
      /\ << inp.lg, inp.bias >> \in DataProfiles
      /\ (inp.padded_kv_seq_len % block_size_of(inp) = 0) => (inp.oob = "finite")
      /\ ((inp.mask.cls = "None") \/ ~inp.has_target_positions)
           => (inp.lg = "flat" /\ inp.bias = "none") }

InitWith(inps) ==
  /\ pc = "start"
  /\ input \in inps
  /\ drv = NoDrv
  /\ pid = << 0, 0, 0 >>
  /\ m_i = ScratchStart.m
  /\ l_i = ScratchStart.l
  /\ o_scratch = [ val |-> ScratchStart.o, nan |-> ScratchStart.nan ]
  /\ o_ref = [ ln \in Lanes |-> Unwritten ]
  /\ log = [ ln \in Lanes |-> NoLog ]
  /\ ret = "none"

Init == InitWith(Inputs)

\* Only the mask component is checked.
no_mask_metadata_mask_only(inp) == inp.mask.cls = "None"

\* mask is None or mask.target_positions is None.
no_mask_metadata(inp) == (inp.mask.cls = "None") \/ ~inp.has_target_positions

\* __call__ raises ValueError: no mask component, or no target positions.
call_raise ==
  /\ pc = "start"
  /\ no_mask_metadata(input)
  /\ pc' = "raised"
  /\ UNCHANGED << input, drv, pid, m_i, l_i, o_scratch, o_ref, log, ret >>

\* pallas_call with the block table tbl: the grid starts at its first step,
\* or has no step at all.
launch(tbl) ==
  LET d == [ kv_seq_len |-> kv_seq_len_of(input),
             kv_block_offset |-> tbl,
             kv_block_offset_size |-> kv_block_offset_size_of(input),
             grid |-> << BatchSize, NumKvHeads, grid_scan_of(input) >> ]
  IN /\ drv' = d
     /\ pid' = << 0, 0, 0 >>
     /\ pc' = IF d.grid[3] = 0 THEN "ran" ELSE "grid"
     /\ UNCHANGED << input, m_i, l_i, o_scratch, o_ref, log, ret >>

\* __call__ up to the launch of the grid.
call_launch ==
  /\ pc = "start"
  /\ ~no_mask_metadata(input)
  /\ launch(kv_block_offset_of(input))

\* The grid coordinate after << b, h, j >>, the scan index running fastest.
next_pid(g, b, h, j) ==
  IF j + 1 < g[3] THEN << b, h, j + 1 >>
  ELSE IF h + 1 < g[2] THEN << b, h + 1, 0 >>
  ELSE << b + 1, 0, 0 >>

\* One grid step: the body of _tpu_decoding_kernel at program_id pid.
tpu_decoding_kernel ==
  /\ pc = "grid"
  /\ LET batch_index == pid[1]
         h == pid[2]
         non_empty_kv_block_index == pid[3]
         num_non_empty_kv_blocks == drv.kv_block_offset_size[batch_index]
         acc == [ m |-> m_i, l |-> l_i, o |-> o_scratch.val, nan |-> o_scratch.nan ]
         acc1 == body_scratch(input, drv, batch_index, h, non_empty_kv_block_index, acc)
         ran_compute == when_compute(non_empty_kv_block_index, num_non_empty_kv_blocks)
         ran_final == when_final(non_empty_kv_block_index, num_non_empty_kv_blocks)
         ln == << batch_index, h >>
         out == q_spec_map(batch_index, h, non_empty_kv_block_index)
         nxt == next_pid(drv.grid, batch_index, h, non_empty_kv_block_index)
     IN /\ m_i' = acc1.m
        /\ l_i' = acc1.l
        /\ o_scratch' = [ val |-> acc1.o, nan |-> acc1.nan ]
        /\ o_ref' = IF ran_final
                    THEN [ o_ref EXCEPT ![<< out[1], out[2] >>] = final(acc1) ]
                    ELSE o_ref
        /\ log' = [ log EXCEPT
             ![ln].computed =
               IF ran_compute
               THEN Append(@, kv_index_map(batch_index, h, non_empty_kv_block_index,
                                           drv.kv_block_offset)[4])
               ELSE @,
             ![ln].finals =
               IF ran_final THEN Append(@, non_empty_kv_block_index) ELSE @ ]
        /\ pid' = nxt
        /\ pc' = IF nxt[1] < drv.grid[1] THEN "grid" ELSE "ran"
  /\ UNCHANGED << input, drv, ret >>

\* return out.reshape(orig_q_shape).
call_return ==
  /\ pc = "ran"
  /\ pc' = "done"
  /\ UNCHANGED << input, drv, pid, m_i, l_i, o_scratch, o_ref, log, ret >>

Next == call_raise \/ call_launch \/ tpu_decoding_kernel \/ call_return

Spec == Init /\ [][Next]_vars

\* ------------------------------------------------------- dense reference
\* The key positions the decode query of batch element b attends to.
Allowed(inp, b) ==
  LET kv_len == kv_seq_len_of(inp)[b]
  IN { p \in 0 .. inp.padded_kv_seq_len - 1 :
         (p < kv_len) /\ ((inp.mask.fn # "none") => mask_fn(inp.mask, kv_len - 1, p)) }

\* The unblocked logit of key position p: scale * q.k + bias.
RefLogit(inp, b, h, p) ==
  QK(inp.lg, b, h, p)
  + (CASE inp.bias = "bcast" -> BiasTensor("bcast", 0, 0, p)
       [] inp.bias = "full" -> BiasTensor("full", b, h, p)
       [] OTHER -> 0)

\* Softmax over the positions of A, times the value rows, as a fraction.
Dense(inp, b, h, A) ==
  LET m == SetMax({ RefLogit(inp, b, h, p) : p \in A })
      w == [ p \in A |-> Exp(RefLogit(inp, b, h, p) - m) ]
  IN [ num |-> SumOver([ p \in A |-> w[p] * V(b, h, p) ], A),
       den |-> SumOver(w, A) ]

\* out is the softmax-weighted average of the value rows over exactly A.
IsDenseOver(out, inp, b, h, A) ==
  /\ A # {}
  /\ ~out.nan
  /\ out.num * Dense(inp, b, h, A).den = Dense(inp, b, h, A).num * out.den

Divisible(inp) == inp.padded_kv_seq_len % block_size_of(inp) = 0

\* ---------------------------------------------------------- is_supported
\* The inputs of is_supported: base_ok stands for the checks of the base
\* class other than the shape check of logit_sink.
SupportInputs ==
  [ base_ok : BOOLEAN,
    logit_sink : { "none", "num_heads", "num_heads_plus_1" },
    kv_cache_type : { "KVCache", "None", "Other" },
    tpu_block_size : 1 .. MaxSupportLen,
    k_seq_len : 1 .. MaxSupportLen ]

\* BaseSingleStepDecoding.is_supported: raises on a per-head tensor whose
\* length is not the number of heads, else returns a boolean.
super_is_supported(inp) ==
  IF inp.logit_sink = "num_heads_plus_1" THEN "ValueError"
  ELSE IF inp.base_ok THEN "True" ELSE "False"

\* is_supported with the length comparison reversed.
is_supported_shorter_only(inp) ==
  LET sup == super_is_supported(inp)
      block_size == inp.tpu_block_size
      k_seq_len == inp.k_seq_len
  IN IF sup # "True" THEN sup
     ELSE IF inp.kv_cache_type # "KVCache" THEN "False"
     ELSE IF (k_seq_len % block_size # 0) /\ (k_seq_len < block_size) THEN "False"
     ELSE "True"

\* is_supported turning an error of the base class into False.
is_supported_catching(inp) ==
  LET sup == super_is_supported(inp)
      block_size == inp.tpu_block_size
      k_seq_len == inp.k_seq_len
  IN IF sup # "True" THEN "False"
     ELSE IF inp.kv_cache_type # "KVCache" THEN "False"
     ELSE IF (k_seq_len % block_size # 0) /\ (k_seq_len > block_size) THEN "False"
     ELSE "True"

\* is_supported without the divisibility check.
is_supported_any_length(inp) ==
  LET sup == super_is_supported(inp)
  IN IF sup # "True" THEN sup
     ELSE IF inp.kv_cache_type # "KVCache" THEN "False"
     ELSE "True"

\* is_supported rejecting every key length that is not a multiple.
is_supported_multiples_only(inp) ==
  LET sup == super_is_supported(inp)
  IN IF sup # "True" THEN sup
     ELSE IF inp.kv_cache_type # "KVCache" THEN "False"
     ELSE IF inp.k_seq_len % inp.tpu_block_size # 0 THEN "False"
     ELSE "True"

\* TPUDecoding.is_supported.
is_supported(inp) ==
  LET sup == super_is_supported(inp)
      block_size == inp.tpu_block_size
      k_seq_len == inp.k_seq_len
  IN IF sup # "True" THEN sup
     ELSE IF inp.kv_cache_type # "KVCache" THEN "False"
     ELSE IF (k_seq_len % block_size # 0) /\ (k_seq_len > block_size) THEN "False"
     ELSE "True"

InitOther ==
  /\ drv = NoDrv
  /\ pid = << 0, 0, 0 >>
  /\ m_i = ScratchStart.m
  /\ l_i = ScratchStart.l
  /\ o_scratch = [ val |-> ScratchStart.o, nan |-> ScratchStart.nan ]
  /\ o_ref = [ ln \in Lanes |-> Unwritten ]
  /\ log = [ ln \in Lanes |-> NoLog ]
  /\ ret = "none"

InitSupport ==
  /\ pc = "support_start"
  /\ input \in SupportInputs
  /\ InitOther

\* One call of is_supported.
is_supported_call ==
  /\ pc = "support_start"
  /\ ret' = is_supported(input)
  /\ pc' = "support_returned"
  /\ UNCHANGED << input, drv, pid, m_i, l_i, o_scratch, o_ref, log >>

NextSupport == is_supported_call

SpecSupport == InitSupport /\ [][NextSupport]_vars

\* ------------------------------------------------- block table, row by row
\* The sliding-window masks of the equivalence test, as the closed-form
\* class and as a plain mask function.
SwWindows == { 0, 1, 4 }
SwInputs ==
  [ mask : { [ cls |-> c, fn |-> "window", w |-> w ] :
               c \in { "SlidingWindow", "MaskFn" }, w \in SwWindows },
    padded_kv_seq_len : { SwGridLen },
    tpu_block_size : { d \in 1 .. SwGridLen : SwGridLen % d = 0 } ]

InitSW ==
  /\ pc = "table_start"
  /\ input \in SwInputs
  /\ InitOther

\* The non-sentinel entries of row i of the driver's block offset table.
table_row(inp, i) ==
  LET row == offset_of(inp.mask, inp.padded_kv_seq_len, block_size_of(inp))[i]
  IN [ row |-> i, indices |-> { row[c] : c \in DOMAIN row } \ { padding } ]

\* The driver's table computation, observed one query-block row at a time.
build_table_row ==
  /\ pc \in { "table_start", "table_rows" }
  /\ LET i == IF pc = "table_start" THEN 0 ELSE ret.row + 1
     IN /\ i < cdiv(input.padded_kv_seq_len, block_size_of(input))
        /\ ret' = table_row(input, i)
        /\ pc' = "table_rows"
  /\ UNCHANGED << input, drv, pid, m_i, l_i, o_scratch, o_ref, log >>

NextSW == build_table_row

SpecSW == InitSW /\ [][NextSW]_vars

\* ------------------------------------------------------ permuted visiting
\* The row with its first n entries reordered by the rank sigma gives to
\* the block indices.
reorder(row, n, sigma) ==
  [ c \in DOMAIN row |->
    IF c < n
    THEN CHOOSE e \in { row[k] : k \in 0 .. n - 1 } :
           Cardinality({ k \in 0 .. n - 1 : sigma[row[k]] < sigma[e] }) = c
    ELSE row[c] ]

PermInputs ==
  { inp \in Inputs :
      /\ ~no_mask_metadata(inp)
      /\ Divisible(inp)
      /\ inp.lg # "flat"
      /\ \A b \in Batches : inp.target_positions[b] = inp.target_positions[0]
      /\ inp.target_positions[0] >= 0 }

InitPerm == InitWith(PermInputs)

\* The launch of the grid on a table whose valid blocks are laid out in
\* another order; the valid-block counts and the grid are those of the driver.
call_permuted ==
  /\ pc = "start"
  /\ ~no_mask_metadata(input)
  /\ \E sigma \in Permutations(0 .. NumKvBlocksOf(input) - 1) :
       launch([ b \in Batches |->
                reorder(kv_block_offset_of(input)[b],
                        kv_block_offset_size_of(input)[b], sigma) ])

NextPerm == call_permuted \/ tpu_decoding_kernel \/ call_return

SpecPerm == InitPerm /\ [][NextPerm]_vars

\* ------------------------------------------------------ padded key cache
\* Calls on a key cache of 8 positions in blocks of 4, every batch element
\* at the same true length 1 .. 8, with the padded positions holding
\* logits and value rows like any other position.
ScenarioInputs ==
  { inp \in [ mask : { m \in MaskVariants : m.fn \in { "causal", "none", "window" } },
              has_target_positions : { TRUE },
              target_positions : { [ b \in Batches |-> t - 1 ] : t \in 1 .. 8 },
              tpu_block_size : { 4 },
              padded_kv_seq_len : { 8 },
              lg : LogitPatterns,
              bias : BiasKinds,
              logit_sink : { NoSink },
              oob : { "finite" } ] :
      << inp.lg, inp.bias >> \in DataProfiles }

InitScenario == InitWith(ScenarioInputs)

NextScenario == call_launch \/ tpu_decoding_kernel \/ call_return

SpecScenario == InitScenario /\ [][NextScenario]_vars

\* ------------------------------------------------------- table of a call
\* The table built from the largest true length of the batch.
driver_offset_true_length(inp) ==
  offset_of(inp.mask, SetMax({ kv_seq_len_of(inp)[b] : b \in Batches }), block_size_of(inp))

\* The full block offset table __call__ computes under
\* jax.ensure_compile_time_eval() for the input batch inp.
driver_offset(inp) == offset_of(inp.mask, inp.padded_kv_seq_len, block_size_of(inp))

\* First calls of a pair: flat logits, no explicit bias, one true length
\* for the whole batch.
TableInputs ==
  { inp \in Inputs :
      /\ ~no_mask_metadata(inp)
      /\ inp.lg = "flat" /\ inp.bias = "none"
      /\ \A b \in Batches : inp.target_positions[b] = inp.target_positions[0] }

\* The calls that differ from inp in query/key/value/bias contents and in
\* the true lengths only.
SameStatics(inp) ==
  { other \in Inputs :
      /\ ~no_mask_metadata(other)
      /\ other.mask = inp.mask
      /\ other.padded_kv_seq_len = inp.padded_kv_seq_len
      /\ other.tpu_block_size = inp.tpu_block_size
      /\ other.oob = inp.oob }

InitTable == InitWith(TableInputs)

\* The first call computes its table.
first_call_table ==
  /\ pc = "start"
  /\ ret' = [ first |-> driver_offset(input), second |-> << >>, rows |-> << >> ]
  /\ pc' = "first_table"
  /\ UNCHANGED << input, drv, pid, m_i, l_i, o_scratch, o_ref, log >>

\* A second call with other contents and true lengths computes its table
\* and selects its rows.
second_call_table ==
  /\ pc = "first_table"
  /\ \E other \in SameStatics(input) :
       /\ input' = other
       /\ ret' = [ first |-> ret.first,
                   second |-> driver_offset(other),
                   rows |-> selected_rows(other) ]
  /\ pc' = "second_table"
  /\ UNCHANGED << drv, pid, m_i, l_i, o_scratch, o_ref, log >>

NextTable == first_call_table \/ second_call_table

SpecTable == InitTable /\ [][NextTable]_vars

\* ------------------------------------------------------- grid schedules
\* The batch and kv-head dimensions of the grid are "parallel", the scan
\* dimension is "arbitrary" (sequential): the lanes may run in any order.
\* The launch declares one scratch triple (m_i, l_i, o_scratch), not one per
\* lane; with two cores the lanes are divided between the cores, each core
\* with a scratch of its own.  The schedules below are those of one core
\* that is handed the lanes of one kv head: they run the steps of each lane
\* in increasing scan order on the scratch and take the lanes in any order;
\* the first two lanes to start may interleave their steps in any way.  The
\* true lengths of the batch are consecutive (modulo the padded length plus
\* one).
SchedInputs ==
  { inp \in Inputs :
      /\ ~no_mask_metadata(inp)
      /\ Divisible(inp)
      /\ inp.lg = "alt"
      /\ inp.bias = "none"
      /\ inp.mask.fn \in { "none", "parity" }
      /\ \A b \in Batches :
           inp.target_positions[b] + 1
             = (inp.target_positions[0] + 1 + b) % (inp.padded_kv_seq_len + 1) }

InitSched == InitWith(SchedInputs)

NoLane == << -1, -1 >>

\* What is observed of a schedule: the kv head whose lanes the core runs,
\* the steps each lane has run, the lane
\* of the last step, the lane that wrote the scratch last, the lanes that
\* read scratch last written by another lane, and the lanes that had a step
\* of another lane between two of their steps.
NoSched ==
  [ share |-> 0, steps |-> [ ln \in Lanes |-> 0 ], last |-> NoLane, writer |-> NoLane,
    readers |-> {}, broken |-> {} ]

\* The lanes of the core.
ShareLanes == { ln \in Lanes : ln[2] = ret.share }

\* __call__ up to the launch, for a scheduled grid.
call_launch_sched ==
  /\ pc = "start"
  /\ ~no_mask_metadata(input)
  /\ drv' = [ kv_seq_len |-> kv_seq_len_of(input),
              kv_block_offset |-> kv_block_offset_of(input),
              kv_block_offset_size |-> kv_block_offset_size_of(input),
              grid |-> << BatchSize, NumKvHeads, grid_scan_of(input) >> ]
  /\ pid' = << 0, 0, 0 >>
  /\ \E share \in Heads : ret' = [ NoSched EXCEPT !.share = share ]
  /\ pc' = IF grid_scan_of(input) = 0 THEN "ran" ELSE "sched"
  /\ UNCHANGED << input, m_i, l_i, o_scratch, o_ref, log >>

\* The lanes in the middle of their scan.
InFlight == { ln \in ShareLanes : 0 < ret.steps[ln] /\ ret.steps[ln] < drv.grid[3] }

\* One grid step of some lane that has steps left: the body of
\* _tpu_decoding_kernel at the lane's next scan index.
scheduled_step ==
  /\ pc = "sched"
  /\ \E ln \in ShareLanes :
       LET batch_index == ln[1]
           h == ln[2]
           non_empty_kv_block_index == ret.steps[ln]
           num_non_empty_kv_blocks == drv.kv_block_offset_size[batch_index]
           acc == [ m |-> m_i, l |-> l_i, o |-> o_scratch.val, nan |-> o_scratch.nan ]
           acc1 == body_scratch(input, drv, batch_index, h, non_empty_kv_block_index, acc)
           ran_init == when_init(non_empty_kv_block_index)
           ran_compute == when_compute(non_empty_kv_block_index, num_non_empty_kv_blocks)
           ran_final == when_final(non_empty_kv_block_index, num_non_empty_kv_blocks)
           steps1 == [ ret.steps EXCEPT ![ln] = @ + 1 ]
       IN /\ non_empty_kv_block_index < drv.grid[3]
          /\ \/ InFlight \ { ln } = {}
             \/ /\ \A x, y \in InFlight \ { ln } : x = y
                /\ \A x \in ShareLanes \ (InFlight \cup { ln }) : ret.steps[x] = 0
          /\ m_i' = acc1.m
          /\ l_i' = acc1.l
          /\ o_scratch' = [ val |-> acc1.o, nan |-> acc1.nan ]
          /\ o_ref' = IF ran_final THEN [ o_ref EXCEPT ![ln] = final(acc1) ] ELSE o_ref
          /\ log' = [ log EXCEPT
               ![ln].computed =
                 IF ran_compute
                 THEN Append(@, kv_index_map(batch_index, h, non_empty_kv_block_index,
                                             drv.kv_block_offset)[4])
                 ELSE @,
               ![ln].finals =
                 IF ran_final THEN Append(@, non_empty_kv_block_index) ELSE @ ]
          /\ pid' = << batch_index, h, non_empty_kv_block_index >>
          /\ ret' = [ share |-> ret.share,
                      steps |-> steps1,
                      last |-> ln,
                      writer |-> IF ran_init \/ ran_compute THEN ln ELSE ret.writer,
                      readers |-> IF ~ran_init /\ ran_compute /\ ret.writer # ln
                                  THEN ret.readers \cup { ln } ELSE ret.readers,
                      broken |-> IF non_empty_kv_block_index > 0 /\ ret.last # ln
                                 THEN ret.broken \cup { ln } ELSE ret.broken ]
          /\ pc' = IF \A x \in ShareLanes : steps1[x] = drv.grid[3]
                   THEN "ran" ELSE "sched"
  /\ UNCHANGED << input, drv >>

NextSched == call_launch_sched \/ scheduled_step \/ call_return

SpecSched == InitSched /\ [][NextSched]_vars

\* ------------------------------------------------------------ logit sink
\* input_batch["logit_sink"]: one value per head, the same for every head.
SinkValues == -1 .. MaxLogit

\* Calls whose input batch carries a logit_sink.  __call__ reads the keys
\* bias, query, key and value of the input batch and hands the kernel
\* q, k, v and the explicit bias.
SinkInputs ==
  { inp \in [ mask : { m \in MaskVariants : m.fn \in { "causal", "none" } },
              has_target_positions : { TRUE },
              target_positions : { [ b \in Batches |-> t - 1 ] : t \in 1 .. PaddedKvSeqLen },
              tpu_block_size : { d \in 1 .. PaddedKvSeqLen : PaddedKvSeqLen % d = 0 },
              padded_kv_seq_len : { PaddedKvSeqLen },
              lg : { "flat", "alt" },
              bias : { "none" },
              logit_sink : [ present : { TRUE }, value : SinkValues ],
              oob : { "finite" } ] : TRUE }

InitSink == InitWith(SinkInputs)

NextSink == call_launch \/ tpu_decoding_kernel \/ call_return

SpecSink == InitSink /\ [][NextSink]_vars

\* The closed form with the sink in the denominator only: softmax over the
\* positions of A and one extra logit sink that carries no value row.
DenseWithSink(inp, b, h, A, sink) ==
  LET m == SetMax({ RefLogit(inp, b, h, p) : p \in A } \cup { sink })
      w == [ p \in A |-> Exp(RefLogit(inp, b, h, p) - m) ]
  IN [ num |-> SumOver([ p \in A |-> w[p] * V(b, h, p) ], A),
       den |-> SumOver(w, A) + Exp(sink - m) ]

\* ================================================================ claims
kv_len_at(b) == kv_seq_len_of(input)[b]
Launched == pc \in { "grid", "ran", "done" }
\* The caller's contract: every true KV length is at least 1.
LiveLengths == \A b \in Batches : kv_seq_len_of(input)[b] >= 1
Computed(ln) == { log[ln].computed[k] : k \in 1 .. Len(log[ln].computed) }

\* KV blocks holding a key position the decode query of b attends to.
BruteDecode(inp, b) ==
  { j \in 0 .. NumKvBlocksOf(inp) - 1 :
      BlockPositions(j, block_size_of(inp), inp.padded_kv_seq_len) \cap Allowed(inp, b) # {} }

\* KV blocks that start before kv_seq_len[b] and hold a key position some
\* query position of the decode position's query block attends to.
BruteQueryBlock(inp, b) ==
  LET blk == block_size_of(inp)
      len == inp.padded_kv_seq_len
      kv_len == kv_seq_len_of(inp)[b]
      qs == BlockPositions((kv_len - 1) \div blk, blk, len)
  IN { j \in 0 .. NumKvBlocksOf(inp) - 1 :
         /\ j * blk < kv_len
         /\ (inp.mask.fn # "none") =>
              \E q \in qs : \E k \in BlockPositions(j, blk, len) : mask_fn(inp.mask, q, k) }

\* C1 (as stated): for every lane with 1 <= kv_seq_len[b], every mask and
\* every block size dividing the padded length, the output written by
\* final() is the softmax-weighted average of the value rows over exactly
\* the key positions p < kv_seq_len[b] accepted by mask_fn(kv_seq_len[b]-1, p).
C1_AsStated ==
  \A ln \in Lanes :
    (Divisible(input) /\ kv_len_at(ln[1]) >= 1 /\ o_ref[ln].written)
      => IsDenseOver(o_ref[ln], input, ln[1], ln[2], Allowed(input, ln[1]))

\* C1 (amended): the same for every lane whose decode query attends to at
\* least one key position; such a lane has written its output when the call
\* returns.
C1_DenseEquivalence ==
  \A ln \in Lanes :
    (Divisible(input) /\ kv_len_at(ln[1]) >= 1 /\ Allowed(input, ln[1]) # {})
      => /\ o_ref[ln].written
              => IsDenseOver(o_ref[ln], input, ln[1], ln[2], Allowed(input, ln[1]))
         /\ (pc = "done") => o_ref[ln].written

C1_Witness ==
  /\ pc = "done"
  /\ Divisible(input)
  /\ \E ln \in Lanes :
       /\ o_ref[ln].written
       /\ Len(log[ln].computed) >= 2
       /\ Allowed(input, ln[1]) # {}
       /\ Allowed(input, ln[1]) # 0 .. kv_len_at(ln[1]) - 1
       /\ kv_len_at(ln[1]) < input.padded_kv_seq_len

\* C2 (as stated): the blocks compute() ran on are exactly the blocks that
\* hold an unmasked (query, key) pair for the decode query (stated for the
\* lanes whose decode query attends to some key position).
C2_AsStated ==
  (pc = "done" /\ Divisible(input) /\ LiveLengths)
    => \A ln \in Lanes :
         (Allowed(input, ln[1]) # {}) => Computed(ln) = BruteDecode(input, ln[1])

\* C2 (amended): the blocks compute() ran on are, in ascending order and
\* once each, exactly the blocks that start before kv_seq_len[b] and hold an
\* unmasked pair for some query position of the decode position's query
\* block; every block with an unmasked pair for the decode query is among
\* them.
C2_BlockSkip ==
  (pc = "done")
    => \A ln \in Lanes :
         /\ (kv_len_at(ln[1]) >= 1) => Computed(ln) = BruteQueryBlock(input, ln[1])
         /\ BruteDecode(input, ln[1]) \subseteq Computed(ln)
         /\ \A k \in 1 .. Len(log[ln].computed) - 1 :
              log[ln].computed[k] < log[ln].computed[k + 1]

C2_Witness ==
  /\ pc = "done"
  /\ \E ln \in Lanes :
       /\ Computed(ln) # {}
       /\ Computed(ln) = BruteDecode(input, ln[1])
       /\ \E j \in 0 .. NumKvBlocksOf(input) - 1 :
            j * block_size_of(input) < kv_len_at(ln[1]) /\ j \notin Computed(ln)

\* C3 (as stated): over a complete grid run (all true KV lengths >= 1) every
\* lane executes final() exactly once, at scan index valid_block_count[b] - 1.
C3_AsStated ==
  (pc = "done" /\ LiveLengths)
    => \A ln \in Lanes : log[ln].finals = << drv.kv_block_offset_size[ln[1]] - 1 >>

\* C3 (amended): a lane with at least one valid block executes final()
\* exactly once, at scan index valid_block_count[b] - 1; a lane with no
\* valid block never executes it and its output stays unwritten.
C3_FinalOnce ==
  /\ Launched =>
       \A ln \in Lanes :
         \A k \in 1 .. Len(log[ln].finals) :
           log[ln].finals[k] = drv.kv_block_offset_size[ln[1]] - 1
  /\ (pc = "done") =>
       \A ln \in Lanes :
         /\ log[ln].finals =
              IF drv.kv_block_offset_size[ln[1]] >= 1
              THEN << drv.kv_block_offset_size[ln[1]] - 1 >>
              ELSE << >>
         /\ o_ref[ln].written <=> (drv.kv_block_offset_size[ln[1]] >= 1)

C3_Witness ==
  /\ pc = "done"
  /\ \E ln \in Lanes :
       /\ drv.kv_block_offset_size[ln[1]] >= 2
       /\ drv.kv_block_offset_size[ln[1]] < drv.grid[3]
       /\ log[ln].finals = << drv.kv_block_offset_size[ln[1]] - 1 >>

\* A grid step of the tail: the scan index is beyond the lane's last valid
\* block.
TailStep == (pc = "grid") /\ (pid[3] > drv.kv_block_offset_size[pid[1]] - 1)

\* C4 (as stated): a grid step at a scan index beyond valid_block_count - 1
\* leaves the output and the accumulator (m, l, o) unchanged.
C4_AsStated ==
  [][ (TailStep /\ LiveLengths) => (o_ref' = o_ref /\ m_i' = m_i /\ l_i' = l_i /\ o_scratch' = o_scratch) ]_vars

\* C4 (amended): such a step runs neither compute() nor final(), so the
\* output is unchanged; the accumulator is unchanged too, except that at
\* scan index 0 of a lane without valid block init() resets it.
C4_NoOpTail ==
  [][ TailStep =>
        /\ o_ref' = o_ref
        /\ log' = log
        /\ IF pid[3] = 0
           THEN m_i' = init.m /\ l_i' = init.l /\ o_scratch' = [ val |-> init.o, nan |-> init.nan ]
           ELSE m_i' = m_i /\ l_i' = l_i /\ o_scratch' = o_scratch ]_vars

\* A tail step has just run on a finalized lane.
C4_Witness ==
  /\ Launched
  /\ \E ln \in Lanes :
       /\ o_ref[ln].written
       /\ drv.kv_block_offset_size[ln[1]] < drv.grid[3]
       /\ (pc = "grid") => (pid[1] > ln[1])
       /\ m_i # init.m

C7_RaisesWithoutMetadata ==
  ((input.mask.cls = "None") \/ ~input.has_target_positions)
    => /\ pc \in { "start", "raised" }
       /\ drv = NoDrv
       /\ \A ln \in Lanes : o_ref[ln] = Unwritten /\ log[ln] = NoLog

C7_Witness ==
  /\ pc = "raised"
  /\ input.mask.cls # "None"
  /\ ~input.has_target_positions

\* C6: when the base-class check passes, is_supported returns True exactly
\* when kv_cache_type is KVCache and the key length is a multiple of the
\* block size or at most the block size; otherwise it returns False, and it
\* does not raise.
C6_SupportPredicate ==
  (pc = "support_returned" /\ super_is_supported(input) = "True")
    => /\ ret \in { "True", "False" }
       /\ (ret = "True") <=>
            /\ input.kv_cache_type = "KVCache"
            /\ \/ \E n \in 1 .. input.k_seq_len : n * input.tpu_block_size = input.k_seq_len
               \/ input.k_seq_len <= input.tpu_block_size

C6_Witness ==
  /\ pc = "support_returned"
  /\ super_is_supported(input) = "True"
  /\ ret = "True"
  /\ input.k_seq_len < input.tpu_block_size
  /\ input.tpu_block_size % input.k_seq_len # 0

\* What is_supported returns for the key length and block size of the
\* forward call, for a KVCache and a passing base-class check.
SupportOfCall ==
  is_supported([ base_ok |-> TRUE, logit_sink |-> "none", kv_cache_type |-> "KVCache",
                 tpu_block_size |-> input.tpu_block_size,
                 k_seq_len |-> input.padded_kv_seq_len ])

\* C8 (as stated): for an input on which is_supported returns False, the
\* forward pass does not write an attention output that differs from the
\* dense reference.
C8_AsStated ==
  \A ln \in Lanes :
    (SupportOfCall = "False" /\ o_ref[ln].written /\ Allowed(input, ln[1]) # {})
      => IsDenseOver(o_ref[ln], input, ln[1], ln[2], Allowed(input, ln[1]))

\* C8 (amended): the forward pass does not check support; it writes an
\* output that differs from the dense reference only for key lengths that
\* is_supported rejects (neither a multiple of nor at most the block size),
\* and for those it reads beyond the keys and can write a NaN.
C8_WrongOnlyIfRejected ==
  \A ln \in Lanes :
    ( /\ o_ref[ln].written
      /\ Allowed(input, ln[1]) # {}
      /\ ~IsDenseOver(o_ref[ln], input, ln[1], ln[2], Allowed(input, ln[1])) )
      => /\ SupportOfCall = "False"
         /\ o_ref[ln].nan

C8_Witness ==
  /\ pc = "done"
  /\ SupportOfCall = "False"
  /\ \E ln \in Lanes :
       /\ o_ref[ln].written
       /\ o_ref[ln].nan
       /\ Allowed(input, ln[1]) # {}

\* Brute-force evaluation of the sliding-window predicate over the block
\* pairs of query-block row i.
BruteWindowRow(inp, i) ==
  LET blk == block_size_of(inp)
      len == inp.padded_kv_seq_len
  IN { j \in 0 .. cdiv(len, blk) - 1 :
         \E query_pos \in BlockPositions(i, blk, len) :
           \E key_pos \in BlockPositions(j, blk, len) :
             (query_pos - key_pos <= inp.mask.w) /\ (query_pos >= key_pos) }

\* C9: for the sliding-window masks (windows 0, 1, 4; 16 x 16 positions;
\* every block size dividing 16) each row of the table the driver builds
\* holds exactly the KV blocks that brute-force evaluation of
\* query_pos - key_pos <= window /\ query_pos >= key_pos finds non-empty.
C9_SlidingWindowEquivalence ==
  (pc = "table_rows") => ret.indices = BruteWindowRow(input, ret.row)

C9_Witness ==
  /\ pc = "table_rows"
  /\ input.mask.cls = "SlidingWindow"
  /\ input.mask.w = 1
  /\ Cardinality(ret.indices) = 2
  /\ ret.row > 0
  /\ block_size_of(input) > 1

\* C11: with true KV length 5, block size 4 on 8 padded positions and the
\* causal mask, a lane computes on block 0 then block 1 and runs final() at
\* scan index 1 only; the normalizer and the weighted output it divides are
\* exactly the sums of the softmax weights of positions 0 .. 4, so positions
\* 5 .. 7 contribute zero to both, and the output is the dense softmax over
\* positions 0 .. 4.
C11_Scenario ==
  ( /\ pc = "done"
    /\ input.mask.fn = "causal"
    /\ input.padded_kv_seq_len = 8
    /\ block_size_of(input) = 4 )
    => \A ln \in Lanes :
         (kv_len_at(ln[1]) = 5)
           => /\ log[ln].computed = << 0, 1 >>
              /\ log[ln].finals = << 1 >>
              /\ o_ref[ln].written /\ ~o_ref[ln].nan
              /\ o_ref[ln].den = Dense(input, ln[1], ln[2], 0 .. 4).den
              /\ o_ref[ln].num = Dense(input, ln[1], ln[2], 0 .. 4).num

\* The scenario has run on logits whose maximum over all 8 positions sits on
\* a padded position too.
C11_Witness ==
  /\ pc = "done"
  /\ input.mask.fn = "causal"
  /\ input.padded_kv_seq_len = 8
  /\ block_size_of(input) = 4
  /\ input.lg = "alt"
  /\ \E ln \in Lanes :
       /\ kv_len_at(ln[1]) = 5
       /\ o_ref[ln].written
       /\ \E p \in 5 .. 7 : RefLogit(input, ln[1], ln[2], p) = MaxLogit
       /\ o_ref[ln].den < Dense(input, ln[1], ln[2], 0 .. 7).den

\* C12 (as stated): when the input batch carries a logit_sink, the output a
\* lane writes is the closed-form softmax with the sink in the denominator
\* only: exp(sink - m) is added to the normalizer and nothing to the
\* weighted value sum.
C12_AsStated ==
  input.logit_sink.present =>
    \A ln \in Lanes :
      (o_ref[ln].written /\ Allowed(input, ln[1]) # {})
        => LET ref == DenseWithSink(input, ln[1], ln[2], Allowed(input, ln[1]),
                                    input.logit_sink.value)
           IN /\ ~o_ref[ln].nan
              /\ o_ref[ln].num * ref.den = ref.num * o_ref[ln].den

RECURSIVE AscendingFold(_, _, _, _, _)
\* The accumulator after compute() ran on the first n valid blocks of lane
\* (b, h) in the ascending order of the driver's table tbl.
AscendingFold(inp, tbl, b, h, n) ==
  IF n = 0 THEN init
  ELSE CHOOSE next \in { compute(inp, tbl, kv_seq_len_of(inp)[b], b, h, n - 1, prev) :
                           prev \in { AscendingFold(inp, tbl, b, h, n - 1) } } : TRUE

\* C10: whatever the order in which the valid blocks of a lane are visited,
\* the accumulator (m, l, o) at the step that runs final(), and the output
\* it writes, are those of the ascending order.
C10_OrderInvariance ==
  Launched =>
    \A tbl \in { kv_block_offset_of(input) } :
    \A ln \in Lanes :
      LET n == drv.kv_block_offset_size[ln[1]]
          asc == AscendingFold(input, tbl, ln[1], ln[2], n)
      IN /\ o_ref[ln].written => (o_ref[ln] = final(asc))
         /\ (pc = "grid" /\ pid[1] = ln[1] /\ pid[2] = ln[2] /\ pid[3] = n /\ n >= 1)
              => (m_i = asc.m /\ l_i = asc.l /\ o_scratch.val = asc.o)
         /\ (pc = "done" /\ n >= 1) => o_ref[ln].written

C10_Witness ==
  /\ pc = "done"
  /\ input.lg = "peak"
  /\ input.bias = "bcast"
  /\ \E ln \in Lanes :
       /\ o_ref[ln].written
       /\ Len(log[ln].computed) >= 3
       /\ log[ln].computed[1] > log[ln].computed[2]
       /\ log[ln].computed[Len(log[ln].computed)] = 0

\* The output lane ln writes when its grid steps run alone, from init() on.
AloneOutput(ln) ==
  CHOOSE out \in { final(AscendingFold(input, tbl, ln[1], ln[2],
                                       drv.kv_block_offset_size[ln[1]])) :
                     tbl \in { drv.kv_block_offset } } : TRUE

Scheduled == pc \in { "sched", "ran", "done" }

C14_NoPaddingBlocks ==
  Launched =>
    \A ln \in Lanes :
      /\ \A k \in 1 .. Len(log[ln].computed) :
           log[ln].computed[k] * block_size_of(input) < kv_len_at(ln[1])
      /\ Len(log[ln].computed) <= cdiv(kv_len_at(ln[1]), block_size_of(input))

\* A lane ran over all its blocks below the true length and left at least
\* one whole block of padding aside.
C14_Witness ==
  /\ pc = "done"
  /\ \E ln \in Lanes :
       /\ Len(log[ln].computed) >= 2
       /\ Len(log[ln].computed) = cdiv(kv_len_at(ln[1]), block_size_of(input))
       /\ kv_len_at(ln[1]) % block_size_of(input) = 0
       /\ kv_len_at(ln[1]) + block_size_of(input) <= input.padded_kv_seq_len

\* C15: whenever final() executes, the normalizer l it divides by is
\* positive, so every output written has a positive denominator; a lane
\* whose true KV length is 0 never executes final() and nothing is written
\* for it.
C15_PositiveNormalizer ==
  Launched =>
    /\ \A ln \in Lanes :
         /\ o_ref[ln].written => (o_ref[ln].den > 0)
         /\ (kv_len_at(ln[1]) = 0) => (o_ref[ln] = Unwritten /\ log[ln].finals = << >>)
    /\ (pc = "grid" /\ pid[3] >= 1 /\ drv.kv_block_offset_size[pid[1]] >= 1) => (l_i > 0)

\* One lane finalized on a block all of whose positions are masked, another
\* lane of the same call has true length 0.
C15_Witness ==
  /\ pc = "done"
  /\ \E ln \in Lanes : kv_len_at(ln[1]) = 0 /\ ~o_ref[ln].written
  /\ \E ln \in Lanes :
       /\ o_ref[ln].written
       /\ Allowed(input, ln[1]) = {}
       /\ o_ref[ln].den > 0

StepLane == << pid[1], pid[2] >>

\* C17: the scan dimension of the grid is the maximum of the valid block
\* counts of the batch; a grid step of a lane of batch element b runs
\* compute() exactly when its scan index is below the count of b, whatever
\* the counts of the other batch elements, the k-th compute() of a lane being
\* at scan index k - 1; when the call returns every lane has run compute()
\* count[b] times.
C17_PerLaneCounts ==
  /\ [](Launched =>
         /\ \A b \in Batches :
              /\ drv.kv_block_offset_size[b] <= drv.grid[3]
              /\ drv.kv_block_offset_size[b]
                   = count_valid(selected_rows(input)[b], block_size_of(input), kv_len_at(b))
         /\ \E b \in Batches : drv.kv_block_offset_size[b] = drv.grid[3])
  /\ []((pc = "done") =>
         \A ln \in Lanes : Len(log[ln].computed) = drv.kv_block_offset_size[ln[1]])
  /\ [][ (pc = "grid") =>
           /\ pid[3] < drv.grid[3]
           /\ IF pid[3] < drv.kv_block_offset_size[pid[1]]
              THEN /\ Len(log[StepLane].computed) = pid[3]
                   /\ Len(log'[StepLane].computed) = pid[3] + 1
              ELSE log'[StepLane].computed = log[StepLane].computed
           /\ \A ln \in Lanes \ { StepLane } : log'[ln] = log[ln] ]_vars

\* Two batch elements with different positive counts have run.
C17_Witness ==
  /\ pc = "done"
  /\ \E ln1, ln2 \in Lanes :
       /\ drv.kv_block_offset_size[ln1[1]] >= 1
       /\ drv.kv_block_offset_size[ln1[1]] < drv.kv_block_offset_size[ln2[1]]
       /\ ln1[1] > ln2[1]
       /\ Len(log[ln1].computed) = drv.kv_block_offset_size[ln1[1]]
       /\ Len(log[ln2].computed) = drv.grid[3]

\* The scratch as an accumulator record.
Scratch == [ m |-> m_i, l |-> l_i, o |-> o_scratch.val, nan |-> o_scratch.nan ]

\* C18: the grid step at scan index 0 of a lane resets the accumulator to
\* m = NEG_INF, l = 0, o = 0 before it accumulates: the scratch it leaves is
\* that of compute() applied to the reset accumulator (the reset accumulator
\* itself for a lane without valid block), whatever the scratch held before.
C18_ResetAtFirstBlock ==
  [][ (pc = "grid" /\ pid[3] = 0) =>
        /\ init = [ m |-> NEG_INF, l |-> 0, o |-> 0, nan |-> FALSE ]
        /\ Scratch' =
             IF drv.kv_block_offset_size[pid[1]] >= 1
             THEN compute(input, drv.kv_block_offset, drv.kv_seq_len[pid[1]],
                          pid[1], pid[2], 0, init)
             ELSE init ]_vars

\* The first step of a lane has just accumulated, on scratch that the lane
\* before it had left with its own maximum, normalizer and output.
C18_Witness ==
  /\ pc = "grid"
  /\ pid[3] = 1
  /\ pid[1] >= 1
  /\ drv.kv_block_offset_size[pid[1]] >= 1
  /\ Len(log[<< pid[1] - 1, NumKvHeads - 1 >>].computed) >= 2
  /\ Len(log[StepLane].computed) = 1
  /\ l_i > 0

\* The number of grid steps lane ln has run.
Stepped(ln) ==
  CASE pc \in { "ran", "done" } -> drv.grid[3]
    [] pc = "grid" ->
         IF (ln[1] < pid[1]) \/ (ln[1] = pid[1] /\ ln[2] < pid[2]) THEN drv.grid[3]
         ELSE IF ln = StepLane THEN pid[3]
         ELSE 0
    [] OTHER -> 0

\* The state of lane ln: FINALIZED once final() has run, ACCUMULATING once
\* its step at scan index 0 has run, UNINITIALIZED before.
LaneState(ln) ==
  IF log[ln].finals # << >> THEN "FINALIZED"
  ELSE IF Stepped(ln) >= 1 THEN "ACCUMULATING"
  ELSE "UNINITIALIZED"

Rank(st) ==
  CASE st = "UNINITIALIZED" -> 0 [] st = "ACCUMULATING" -> 1 [] OTHER -> 2

\* C19 (as stated): every lane that has run its step at scan index 0 has run
\* the accumulate step compute() there, also a lane without valid block.
C19_AsStated ==
  Launched => \A ln \in Lanes : (Stepped(ln) >= 1) => (Len(log[ln].computed) >= 1)

\* C19 (amended): the state of a lane only moves forward; a lane leaves
\* UNINITIALIZED at its grid step at scan index 0 and only there, where
\* init() always runs but compute() runs only if the lane has a valid block:
\* a lane without valid block is left with the reset accumulator and never
\* becomes FINALIZED, and when no lane has a valid block the grid has no step
\* and every lane stays UNINITIALIZED.  FINALIZED is entered at scan index
\* count - 1.
C19_ForwardOnly ==
  /\ [][ \A ln \in Lanes :
           /\ Rank(LaneState(ln)') >= Rank(LaneState(ln))
           /\ (LaneState(ln) = "UNINITIALIZED" /\ LaneState(ln)' # "UNINITIALIZED")
                => (pc = "grid" /\ ln = StepLane /\ pid[3] = 0)
           /\ (LaneState(ln) # "FINALIZED" /\ LaneState(ln)' = "FINALIZED")
                => (pc = "grid" /\ ln = StepLane
                    /\ pid[3] = drv.kv_block_offset_size[ln[1]] - 1) ]_vars
  /\ [][ \A ln \in Lanes :
           (pc = "grid" /\ ln = StepLane /\ pid[3] = 0) =>
             /\ LaneState(ln) = "UNINITIALIZED"
             /\ LaneState(ln)' # "UNINITIALIZED"
             /\ (drv.kv_block_offset_size[ln[1]] = 0)
                  => (Scratch' = init /\ log'[ln] = NoLog) ]_vars
  /\ []((pc = "done") =>
         \A ln \in Lanes :
           LaneState(ln) =
             IF drv.kv_block_offset_size[ln[1]] >= 1 THEN "FINALIZED"
             ELSE IF drv.grid[3] >= 1 THEN "ACCUMULATING"
             ELSE "UNINITIALIZED")

\* The call returned with a finalized lane that accumulated over two blocks
\* and a lane of positive true length that never accumulated.
C19_Witness ==
  /\ pc = "done"
  /\ \E ln \in Lanes :
       /\ LaneState(ln) = "ACCUMULATING"
       /\ kv_len_at(ln[1]) >= 1
       /\ log[ln].computed = << >>
  /\ \E ln \in Lanes :
       /\ LaneState(ln) = "FINALIZED"
       /\ Len(log[ln].computed) >= 2

\* The key positions of the blocks lane ln has run compute() on, and those
\* of them that are not masked for the decode query.
Seen(ln) ==
  UNION { BlockPositions(j, block_size_of(input), input.padded_kv_seq_len) : j \in Computed(ln) }
Unmasked(ln) == Seen(ln) \cap Allowed(input, ln[1])

\* The scratch holds the accumulator of lane ln after its latest compute().
MidLane(ln) ==
  /\ pc = "grid"
  /\ ln = StepLane
  /\ pid[3] >= 1
  /\ Len(log[ln].computed) >= 1

\* l and o are exactly the sums of the softmax weights, and of the weighted
\* value rows, of the positions of A (nothing if A is empty).
OnlyFrom(l, o, ln, A) ==
  IF A = {} THEN l = 0 /\ o = 0
  ELSE /\ l = Dense(input, ln[1], ln[2], A).den
       /\ o = Dense(input, ln[1], ln[2], A).num

\* C20 (as stated): after every compute() step of a lane, on whatever
\* visited block, the normalizer l and the weighted output o hold the
\* contributions of the unmasked key positions seen so far and nothing from
\* the masked ones (position >= kv_seq_len[b], or rejected by
\* mask_fn(kv_seq_len[b] - 1, position)).
C20_AsStated ==
  Launched =>
    \A ln \in Lanes : MidLane(ln) => OnlyFrom(l_i, o_scratch.val, ln, Unmasked(ln))

\* C20 (amended): once a lane has seen an unmasked key position, l and o
\* (in the scratch after a compute() step, and in the output final() divides)
\* hold nothing from masked positions.  As long as every position seen is
\* masked, the running maximum is NEG_INF and each masked position of the
\* visited blocks counts with weight exp(NEG_INF - NEG_INF) = 1 in l and
\* with its value row in o; the first compute() that sees an unmasked
\* position rescales that to zero.
C20_MaskedZeroOnceUnmasked ==
  Launched =>
    \A ln \in Lanes :
      LET U == Unmasked(ln)
          all_masked(m, l, o) ==
            /\ m = NEG_INF
            /\ l = One * block_size_of(input) * Len(log[ln].computed)
            /\ Divisible(input) =>
                 o = One * SumOver([ p \in Seen(ln) |-> V(ln[1], ln[2], p) ], Seen(ln))
      IN /\ MidLane(ln) =>
              IF U # {}
              THEN /\ OnlyFrom(l_i, o_scratch.val, ln, U)
                   /\ m_i = SetMax({ RefLogit(input, ln[1], ln[2], p) : p \in U })
              ELSE all_masked(m_i, l_i, o_scratch.val)
         /\ o_ref[ln].written =>
              IF U # {}
              THEN OnlyFrom(o_ref[ln].den, o_ref[ln].num, ln, U)
              ELSE all_masked(NEG_INF, o_ref[ln].den, o_ref[ln].num)

\* A lane ran compute() on a block all of whose positions are masked for its
\* query, then on a block with an unmasked position, and the output it
\* wrote holds the unmasked contributions only.
C20_Witness ==
  /\ \E ln \in Lanes :
       /\ o_ref[ln].written
       /\ input.mask.cls = "SlidingWindow"
       /\ Len(log[ln].computed) >= 2
       /\ BlockPositions(log[ln].computed[1], block_size_of(input), input.padded_kv_seq_len)
            \cap Allowed(input, ln[1]) = {}
       /\ Unmasked(ln) # {}
       /\ Unmasked(ln) # Seen(ln) \cap (0 .. kv_len_at(ln[1]) - 1)
       /\ OnlyFrom(o_ref[ln].den, o_ref[ln].num, ln, Unmasked(ln))

\* C21: the grid step in which final() of a lane executes leaves, as the
\* blocks accumulated since the lane's init(), exactly the table entries at
\* scan indices 0 .. valid_block_count[b] - 1, in that order and once each;
\* final() divides the accumulator of exactly these blocks, the block of its
\* own step included.
C21_FinalSeesAllBlocks ==
  [][ \A ln \in Lanes :
        (log'[ln].finals # log[ln].finals) =>
          LET n == drv.kv_block_offset_size[ln[1]]
          IN /\ pc = "grid" /\ ln = StepLane
             /\ Len(log'[ln].computed) = n
             /\ \A k \in 1 .. n : log'[ln].computed[k] = drv.kv_block_offset[ln[1]][k - 1]
             /\ \A k1, k2 \in 1 .. n :
                  (k1 # k2) => (log'[ln].computed[k1] # log'[ln].computed[k2])
             /\ \A tbl \in { drv.kv_block_offset } :
                  /\ Scratch' = AscendingFold(input, tbl, ln[1], ln[2], n)
                  /\ o_ref'[ln] = final(AscendingFold(input, tbl, ln[1], ln[2], n)) ]_vars

\* A lane finalized after three or more blocks, with tail steps to follow.
C21_Witness ==
  /\ pc = "grid"
  /\ pid[3] >= 3
  /\ log[StepLane].finals = << pid[3] - 1 >>
  /\ Len(log[StepLane].computed) = pid[3]
  /\ o_ref[StepLane].written

\* C22 (as stated): for a batch element of true length >= 1 with at least
\* one valid block, every sentinel entry of its selected row is replaced by
\* the row entry at position valid_block_count[b] - 1, the index of its last
\* valid KV block.
C22_AsStated ==
  (Launched /\ LiveLengths) =>
    \A b \in Batches :
      LET row == selected_rows(input)[b]
          n == drv.kv_block_offset_size[b]
      IN (n >= 1) =>
           \A c \in DOMAIN row :
             (row[c] = padding) => (drv.kv_block_offset[b][c] = row[n - 1])

\* What the replacement does: every sentinel entry becomes the largest
\* entry of the selected row, which is the last valid block when the mask
\* is causal or a sliding window.
C22_RowMaximum ==
  Launched =>
    \A b \in Batches :
      LET row == selected_rows(input)[b]
          n == drv.kv_block_offset_size[b]
      IN \A c \in DOMAIN row :
           (row[c] = padding) =>
             /\ drv.kv_block_offset[b][c] = SetMax({ row[k] : k \in DOMAIN row })
             /\ (input.mask.fn \in { "causal", "window" } /\ kv_len_at(b) >= 1)
                  => (n >= 1 /\ drv.kv_block_offset[b][c] = row[n - 1])

\* C23: without mask function every row of the block offset table is
\* 0, 1, ..., num_kv_blocks - 1 with no sentinel entry, so is the row handed
\* to the grid for every batch element, and valid_block_count[b] is
\* ceil(kv_seq_len[b] / block_size) for every batch element with
\* kv_seq_len[b] >= 1.
C23_IdentityTable ==
  (Launched /\ input.mask.fn = "none") =>
    LET offset == offset_of(input.mask, input.padded_kv_seq_len, block_size_of(input))
        cols == 0 .. NumKvBlocksOf(input) - 1
    IN /\ DOMAIN offset = cols
       /\ \A i \in cols : offset[i] = [ j \in cols |-> j ]
       /\ \A b \in Batches :
            /\ drv.kv_block_offset[b] = [ j \in cols |-> j ]
            /\ (kv_len_at(b) >= 1)
                 => (drv.kv_block_offset_size[b] = cdiv(kv_len_at(b), block_size_of(input)))

\* A call without mask function whose true length ends inside its second or
\* a later block.
C23_Witness ==
  /\ Launched
  /\ input.mask.fn = "none"
  /\ block_size_of(input) >= 2
  /\ \E b \in Batches :
       /\ kv_len_at(b) % block_size_of(input) # 0
       /\ drv.kv_block_offset_size[b] >= 2
       /\ drv.kv_block_offset_size[b] = cdiv(kv_len_at(b), block_size_of(input))

\* C24: valid_block_count[b] is at most the width of the block offset
\* table for every batch element, so every scan index of the grid,
\* 0 .. max_b valid_block_count[b] - 1, is a column of every row, and so is
\* the scan index of every grid step that runs.
C24_CountWithinWidth ==
  Launched =>
    /\ \A b \in Batches :
         /\ DOMAIN drv.kv_block_offset[b] = 0 .. NumKvBlocksOf(input) - 1
         /\ drv.kv_block_offset_size[b] <= NumKvBlocksOf(input)
         /\ \A j \in 0 .. drv.grid[3] - 1 : j \in DOMAIN drv.kv_block_offset[b]
    /\ (pc = "grid") => (pid[3] \in DOMAIN drv.kv_block_offset[pid[1]])

\* The grid is at the last column of a table of two or more columns.
C24_Witness ==
  /\ pc = "grid"
  /\ NumKvBlocksOf(input) >= 2
  /\ pid[3] = NumKvBlocksOf(input) - 1
  /\ drv.kv_block_offset_size[pid[1]] = NumKvBlocksOf(input)
  /\ input.mask.fn # "none"

\* C25: two calls that differ only in query/key/value contents and in the
\* true KV lengths compute the same full block offset table, and the true
\* lengths of a call only select, per batch element, which row of that
\* table is used.
C25_TablePurity ==
  (pc = "second_table") =>
    /\ ret.second = ret.first
    /\ \A b \in Batches :
         \E i \in DOMAIN ret.first :
           /\ ret.rows[b] = ret.first[i]
           /\ i = row_index(kv_len_at(b), block_size_of(input), NumKvBlocksOf(input))

\* The second call had other logits, an explicit bias and two different true
\* lengths, and selected two different rows of a table with sentinels.
C25_Witness ==
  /\ pc = "second_table"
  /\ input.lg # "flat"
  /\ input.bias # "none"
  /\ \E b1, b2 \in Batches : ret.rows[b1] # ret.rows[b2]
  /\ \E i \in DOMAIN ret.first : \E c \in DOMAIN ret.first[i] : ret.first[i][c] = padding

\* C26: a grid step at coordinate (b, h, j) leaves the output slice of every
\* other lane, the inputs and the prefetched scalars unchanged; only the
\* scratch and the output slice of lane (b, h) may change.
C26_StepFrame ==
  [][ (pc = "grid") =>
        /\ \A ln \in Lanes : (ln # StepLane) => (o_ref'[ln] = o_ref[ln])
        /\ input' = input
        /\ drv' = drv
        /\ ret' = ret ]_vars

\* The grid has written two lanes with different outputs: the steps of the
\* later lane ran while the earlier lane's slice was already written.
C26_Witness ==
  /\ pc = "ran"
  /\ \E l1, l2 \in Lanes :
       /\ l1 # l2
       /\ o_ref[l1].written /\ o_ref[l2].written
       /\ o_ref[l1] # o_ref[l2]
       /\ Len(log[l1].computed) >= 2 /\ Len(log[l2].computed) >= 1

\* C27: for every batch element the entries at scan indices
\* 0 .. kv_block_offset_size[b] - 1 are strictly increasing block indices and
\* are exactly the entries of the selected row that are not the sentinel and
\* whose first key position is < kv_seq_len[b]; every later entry is the
\* sentinel or a block that starts at or after kv_seq_len[b].
C27_ValidPrefix ==
  Launched =>
    \A b \in Batches :
      LET row == selected_rows(input)[b]
          n == drv.kv_block_offset_size[b]
          bsz == block_size_of(input)
          valid(c) == row[c] # padding /\ row[c] * bsz < kv_len_at(b)
      IN /\ \A c \in DOMAIN row : valid(c) <=> (c < n)
         /\ \A c, d \in DOMAIN row : (c < d /\ d < n) => row[c] < row[d]
         /\ \A c \in DOMAIN row : (c < n) => drv.kv_block_offset[b][c] = row[c]

\* A selected row with a counted block, then a block that is not the
\* sentinel but starts after the true length, then a sentinel.
C27_Witness ==
  /\ Launched
  /\ \E b \in Batches :
       LET row == selected_rows(input)[b]
           n == drv.kv_block_offset_size[b]
       IN /\ n >= 1
          /\ \E c, d \in DOMAIN row :
               /\ n <= c /\ c < d
               /\ row[c] # padding
               /\ row[d] = padding

\* C28: the row selected for batch element b is row
\* (kv_seq_len[b] - 1) div block_size of the table, and for every
\* kv_seq_len[b] in 1 .. padded KV length that index lies in
\* 0 .. num_kv_blocks - 1.
C28_RowInRange ==
  Launched =>
    \A b \in Batches :
      (1 <= kv_len_at(b) /\ kv_len_at(b) <= input.padded_kv_seq_len) =>
        LET r == (kv_len_at(b) - 1) \div block_size_of(input)
            offset == driver_offset(input)
        IN /\ 0 <= r /\ r <= NumKvBlocksOf(input) - 1
           /\ r \in DOMAIN offset
           /\ row_index(kv_len_at(b), block_size_of(input), NumKvBlocksOf(input)) = r
           /\ selected_rows(input)[b] = offset[r]

\* One batch element at true length 1 selects row 0 and another at the full
\* padded length selects the last of several rows, with a block size that
\* does not divide the padded length.
C28_Witness ==
  /\ Launched
  /\ NumKvBlocksOf(input) >= 2
  /\ input.padded_kv_seq_len % block_size_of(input) # 0
  /\ \E b1, b2 \in Batches :
       /\ kv_len_at(b1) = 1
       /\ kv_len_at(b2) = input.padded_kv_seq_len
       /\ selected_rows(input)[b1] = driver_offset(input)[0]
       /\ selected_rows(input)[b2] = driver_offset(input)[NumKvBlocksOf(input) - 1]
       /\ selected_rows(input)[b1] # selected_rows(input)[b2]

\* C29: for every input that is_supported accepts, the effective block size
\* min(tpu_block_size, key length) divides the key length exactly, the
\* blocks are whole, and every key position belongs to exactly one block.
C29_WholeBlocks ==
  (pc = "support_returned" /\ ret = "True") =>
    LET k_seq_len == input.k_seq_len
        block_size == Min(input.tpu_block_size, k_seq_len)
        blocks == 0 .. cdiv(k_seq_len, block_size) - 1
        block(j) == { p \in 0 .. k_seq_len - 1 : p \div block_size = j }
    IN /\ k_seq_len % block_size = 0
       /\ \A j \in blocks : Cardinality(block(j)) = block_size
       /\ \A p \in 0 .. k_seq_len - 1 :
            Cardinality({ j \in blocks : p \in block(j) }) = 1

\* An accepted key of several blocks of more than one position.
C29_Witness ==
  /\ pc = "support_returned"
  /\ ret = "True"
  /\ input.tpu_block_size >= 2
  /\ input.k_seq_len >= 2 * input.tpu_block_size

\* C30: with an explicit bias, at every grid step the bias block fetched has
\* the same KV block index kv_block_offset[b, j] as the key and value blocks
\* fetched at that step, and so every bias value of the block is the bias of
\* the key position it is added to; a bias broadcast over batch and heads
\* is read at leading indices (0, 0), a per-batch per-head bias at (b, h).
C30_BiasBlockAligned ==
  (pc = "grid" /\ input.bias # "none") =>
    LET b == pid[1]
        h == pid[2]
        j == pid[3]
        kidx == kv_index_map(b, h, j, drv.kv_block_offset)
        bidx == bias_spec_map(input.bias, b, h, j, drv.kv_block_offset)
        block_k == block_size_of(input)
    IN /\ bidx[4] = drv.kv_block_offset[b][j]
       /\ kidx[4] = drv.kv_block_offset[b][j]
       /\ << bidx[1], bidx[2] >> = IF input.bias = "bcast" THEN << 0, 0 >> ELSE << b, h >>
       /\ \A i \in 0 .. block_k - 1 :
            (0 <= kidx[4] * block_k + i /\ kidx[4] * block_k + i < input.padded_kv_seq_len) =>
              fetch(input, drv.kv_block_offset, b, h, j, i).b
                = BiasTensor(input.bias, bidx[1], bidx[2], kidx[4] * block_k + i)

\* A step of the second batch element with a broadcast bias is about to fetch
\* a block whose index is not its scan index, after a block of the lane was
\* already computed.
C30_Witness ==
  /\ pc = "grid"
  /\ input.bias = "bcast"
  /\ pid[1] = 1
  /\ pid[3] >= 1
  /\ pid[3] < drv.kv_block_offset_size[1]
  /\ drv.kv_block_offset[1][pid[3]] # pid[3]
  /\ Len(log[StepLane].computed) >= 1
====
